---- MODULE Spec2Model ----
(***************************************************************************)
(* Model of goth's provider registry (provider.go): the Providers map      *)
(* type, its Use / Get / Clear methods, the package-level variable         *)
(* `providers` and the wrappers UseProviders / GetProviders / GetProvider  *)
(* / ClearProviders.                                                       *)
(*                                                                         *)
(* A Go map value is a reference: the model keeps the map objects in      *)
(* `heap` and the variables that refer to them (`providers`, a caller's    *)
(* own registry `local`, a caller-held result of GetProviders `alias`,     *)
(* the receiver captured by a running Use) hold a map identity.            *)
(***************************************************************************)
EXTENDS Integers, Sequences, FiniteSets, TLC

\* ---------------------------------------------------------------- bounds
NumProviders == 2
MaxViders == 2
NumThreads == 2

ProvIds == 1..NumProviders
\* one map object per reference that can be live at once (providers, local,
\* alias, one receiver per thread) and one more for a Providers{} literal
MapIds == 1..(NumThreads + 4)
Threads == 1..NumThreads
Names == {"github", "google"}
Regs == {"shared", "local"}

\* the nil Provider interface value, and the marker of a key a map lacks
NilProvider == 0
Absent == -1
NoRef == 0

NoError == "<nil>"
NoName == ""

\* a provider's authorization endpoint: never established, or some URL
NoURL == ""
AuthURLs == {NoURL, "https://idp.example/authorize"}

\* the state tokens a caller passes to BeginAuth
States == {"state-1", "state-2"}

\* *http.Client values: nil, http.DefaultClient, and the caller's own clients
NumClients == 2
NilClient == 0
DefaultClient == 1
Clients == {DefaultClient} \cup ((DefaultClient + 1)..(DefaultClient + NumClients))

\* what a Provider variable can hold
Values == ProvIds \cup {NilProvider}

\* the argument lists of a variadic Use call
VidersLists == UNION {[1..n -> ProvIds] : n \in 0..MaxViders}

VARIABLES
    pname,       \* pname[x]: what provider x's Name() returns now
    authURL,     \* authURL[x]: the authorization endpoint provider x was
                 \* constructed with, or NoURL
    providers,   \* the package variable: identity of the shared map
    local,       \* a caller's own Providers value p
    alias,       \* a map the caller got from GetProviders(), or NoRef
    heap,        \* heap[m][k]: entry of key k in map object m
    registered,  \* history: registered[r][k] = provider last registered
                 \* under k through Use on registry r since its last Clear
    cleared,     \* history: cleared[r] = the names a Clear removed from r
                 \* and no Use has registered on it since
    ret,         \* the call the one caller just made and what it returned
    pc,          \* pc[t]: where thread t is in the call it is making
    cap,         \* cap[t]: the map thread t's call has loaded (its receiver)
    viders,      \* viders[t]: the arguments of thread t's Use call
    idx,         \* idx[t]: the position of thread t's Use loop in viders
    key,         \* key[t]: the name thread t's Get call looks up
    got,         \* got[t]: what thread t's Get call is returning
    sawPartial,  \* history: a Get indexed a map amid another thread's Use
    crashed      \* the runtime aborted on a concurrent map access

vars == <<pname, authURL, providers, local, alias, heap, registered, cleared,
          ret, pc, cap, viders, idx, key, got, sawPartial, crashed>>

thrVars == <<pc, cap, viders, idx, key, got, sawPartial, crashed>>

\* ------------------------------------------------------------ Go maps
\* Providers{}: a new empty map
EmptyMap == [k \in Names |-> Absent]

\* the keys a map holds (what range / len see)
Keys(m) == {k \in Names : m[k] # Absent}

\* m[k] as an expression: the zero value (nil) for a missing key
MapIndex(m, k) == IF m[k] = Absent THEN NilProvider ELSE m[k]

MapAssignToggle(m, k, v) == IF m[k] = Absent THEN [m EXCEPT ![k] = v]
                            ELSE [m EXCEPT ![k] = Absent]
\* an assignment that loses the other entries
MapAssignOnly(m, k, v) == [EmptyMap EXCEPT ![k] = v]

\* m[k] = v
MapAssign(m, k, v) == [m EXCEPT ![k] = v]

\* ------------------------------------------------------------ Provider
\* Name() of provider x in the current state
Name(x) == pname[x]

\* fmt.Errorf("no provider for %s exists", name)
Errorf(name) == "no provider for " \o name \o " exists"

\* ------------------------------------------------------- map objects
\* the map objects some variable still refers to
Live(prov, loc, al, caps) ==
    ({prov, loc, al} \cup {caps[t] : t \in Threads}) \ {NoRef}

\* a map object nothing refers to is garbage: its identity can be reused
Collect(h, live) == [m \in MapIds |-> IF m \in live THEN h[m] ELSE EmptyMap]

\* Providers{}: the identity of a newly allocated map
NewMap(live) == CHOOSE m \in MapIds \ live : \A o \in MapIds \ live : m <= o

\* ------------------------------------------------------ Providers methods
RECURSIVE UseFrom(_, _, _)
\* the iterations i, i+1, ... of Use's loop over viders, on map contents m
UseFrom(m, vs, i) ==
    IF i > Len(vs) THEN m
    ELSE UseFrom(MapAssign(m, Name(vs[i]), vs[i]), vs, i + 1)

RECURSIVE UseFirstWinsFrom(_, _, _)
UseFirstWinsFrom(m, vs, i) ==
    IF i > Len(vs) THEN m
    ELSE UseFirstWinsFrom(IF m[Name(vs[i])] = Absent
                          THEN MapAssign(m, Name(vs[i]), vs[i]) ELSE m,
                          vs, i + 1)

\* a Use that keeps the provider a name already has
UseFirstWins(m, vs) == UseFirstWinsFrom(m, vs, 1)

\* a Use that drops the entries its providers hold under other names
UseRekey(m, vs) ==
    LET u == UseFrom(m, vs, 1)
    IN  [k \in Names |->
            IF /\ u[k] \in ProvIds
               /\ Name(u[k]) # k
               /\ \E i \in 1..Len(vs) : vs[i] = u[k]
            THEN Absent ELSE u[k]]

\* func (p Providers) Use(viders ...Provider): the contents of p afterwards
Use(m, vs) == UseFrom(m, vs, 1)

\* a Get that tests the key's presence (provider, ok := ...) instead of
\* comparing the value with nil
GetCommaOk(p, name) ==
    IF heap[providers][name] = Absent
    THEN [provider |-> NilProvider, err |-> Errorf(name)]
    ELSE [provider |-> heap[providers][name], err |-> NoError]

\* a Get that looks for the provider whose Name() is `name` now
GetByCurrentName(p, name) ==
    LET found == {k \in Names : heap[providers][k] \in ProvIds
                                /\ Name(heap[providers][k]) = name}
    IN  IF found = {}
        THEN [provider |-> NilProvider, err |-> Errorf(name)]
        ELSE [provider |-> heap[providers][CHOOSE k \in found : TRUE],
              err |-> NoError]

\* Get's nil test on the value it indexed, and what it returns
GetResult(provider, name) ==
    IF provider = NilProvider
    THEN [provider |-> NilProvider, err |-> Errorf(name)]
    ELSE [provider |-> provider, err |-> NoError]

\* func (p Providers) Get(name string) (Provider, error)
\* the body indexes the package variable `providers`, not the receiver p
Get(p, name) == GetResult(MapIndex(heap[providers], name), name)

\* the map variable of registry r
RegMap(r) == IF r = "shared" THEN providers ELSE local

\* history bookkeeping of a Use call: per name, the last of viders that
\* reports that name, or what was registered until then
LastRegistered(old, vs) ==
    [k \in Names |->
        LET I == {i \in 1..Len(vs) : Name(vs[i]) = k}
        IN  IF I = {} THEN old[k]
            ELSE vs[CHOOSE i \in I : \A j \in I : j <= i]]

NoneRegistered == [k \in Names |-> NilProvider]

\* the names registered on registry r since its last Clear
RegisteredNames(r) == {k \in Names : registered[r][k] # NilProvider}

\* the record of a call: what was called on which registry with which
\* name, and what it returned
Call(op, r, name, res) ==
    [op |-> op, reg |-> r, name |-> name, provider |-> res.provider,
     err |-> res.err]

Void == [provider |-> NilProvider, err |-> NoError]

\* ------------------------------------------------- calls of one caller
\* r = "shared": UseProviders(vs...); r = "local": p.Use(vs...)
UseOn(r, vs) ==
    /\ heap' = [heap EXCEPT ![RegMap(r)] = Use(@, vs)]
    /\ registered' = [registered EXCEPT ![r] = LastRegistered(@, vs)]
    /\ cleared' = [cleared EXCEPT ![r] = @ \ {Name(vs[i]) : i \in 1..Len(vs)}]
    /\ ret' = Call("Use", r, NoName, Void)
    /\ UNCHANGED <<pname, providers, local, alias>>
    /\ UNCHANGED <<authURL, thrVars>>

\* r = "shared": GetProvider(name); r = "local": p.Get(name)
GetOn(r, name) ==
    /\ ret' = Call("Get", r, name, Get(RegMap(r), name))
    /\ UNCHANGED <<pname, providers, local, alias, heap, registered, cleared>>
    /\ UNCHANGED <<authURL, thrVars>>

\* a Clear that deletes the entries of the map the variable refers to
ClearInPlaceOn(r) ==
    /\ heap' = [heap EXCEPT ![RegMap(r)] = EmptyMap]
    /\ registered' = [registered EXCEPT ![r] = NoneRegistered]
    /\ cleared' = [cleared EXCEPT ![r] = @ \cup RegisteredNames(r)]
    /\ ret' = Call("Clear", r, NoName, Void)
    /\ UNCHANGED <<pname, providers, local, alias>>
    /\ UNCHANGED <<authURL, thrVars>>

\* r = "shared": ClearProviders(); r = "local": p.Clear()
\* (*p = Providers{}: the variable is pointed at a new empty map)
ClearOn(r) ==
    LET new == NewMap(Live(providers, local, alias, cap))
        prov == IF r = "shared" THEN new ELSE providers
        loc == IF r = "local" THEN new ELSE local
    IN  /\ providers' = prov
        /\ local' = loc
        /\ heap' = Collect([heap EXCEPT ![new] = EmptyMap],
                           Live(prov, loc, alias, cap))
        /\ registered' = [registered EXCEPT ![r] = NoneRegistered]
        /\ cleared' = [cleared EXCEPT ![r] = @ \cup RegisteredNames(r)]
        /\ ret' = Call("Clear", r, NoName, Void)
        /\ UNCHANGED <<pname, alias>>
        /\ UNCHANGED <<authURL, thrVars>>

UseProviders == \E vs \in VidersLists : UseOn("shared", vs)
GetProvider == \E name \in Names : GetOn("shared", name)
ClearProviders == ClearOn("shared")

\* a GetProviders that hands out a new map without the entries
GetProvidersEmpty ==
    LET new == NewMap(Live(providers, local, NoRef, cap))
    IN  /\ alias' = new
        /\ heap' = Collect([heap EXCEPT ![new] = EmptyMap],
                           Live(providers, local, new, cap))
        /\ ret' = Call("GetProviders", "shared", NoName, Void)
        /\ UNCHANGED <<pname, providers, local, registered, cleared>>
        /\ UNCHANGED <<authURL, thrVars>>

\* GetProviders(): the caller receives the shared map itself
GetProviders ==
    /\ alias' = providers
    /\ heap' = Collect(heap, Live(providers, local, providers, cap))
    /\ ret' = Call("GetProviders", "shared", NoName, Void)
    /\ UNCHANGED <<pname, providers, local, registered, cleared>>
    /\ UNCHANGED <<authURL, thrVars>>

\* the caller stores v under k in the map GetProviders() gave it
AliasStore ==
    /\ alias # NoRef
    /\ \E k \in Names, v \in Values :
         /\ heap' = [heap EXCEPT ![alias] = MapAssign(@, k, v)]
         /\ ret' = Call("Store", "shared", k, Void)
    /\ UNCHANGED <<pname, providers, local, alias, registered, cleared>>
    /\ UNCHANGED <<authURL, thrVars>>

\* Provider.SetName(name) on provider x
SetName ==
    /\ \E x \in ProvIds : \E n \in Names \ {pname[x]} :
         /\ pname' = [pname EXCEPT ![x] = n]
         /\ ret' = Call("SetName", "shared", n, Void)
    /\ UNCHANGED <<providers, local, alias, heap, registered, cleared>>
    /\ UNCHANGED <<authURL, thrVars>>

\* the methods on a caller's own registry p
LocalUse == \E vs \in VidersLists : UseOn("local", vs)
LocalGet == \E name \in Names : GetOn("local", name)
LocalClear == ClearOn("local")

\* ------------------------------------------------------ client helpers
\* oauth2.NoContext: a context that carries no values
NoContext == <<>>

\* oauth2.HTTPClient: the context key of the HTTP client
HTTPClient == "oauth2.HTTPClient"

\* context.WithValue(parent, k, v)
WithValue(parent, k, v) == <<(<<k, v>>)>> \o parent

RECURSIVE Value(_, _)
\* ctx.Value(k): the value of the innermost binding of k, or nil
Value(ctx, k) ==
    IF ctx = <<>> THEN NilClient
    ELSE IF Head(ctx)[1] = k THEN Head(ctx)[2]
    ELSE Value(Tail(ctx), k)

\* a ContextForClient that binds the client under another key
ContextForClientWrongKey(h) ==
    IF h = NilClient THEN NoContext
    ELSE WithValue(NoContext, "oauth2.Client", h)

\* func ContextForClient(h *http.Client) context.Context
ContextForClient(h) ==
    IF h = NilClient THEN NoContext
    ELSE WithValue(NoContext, HTTPClient, h)

\* an HTTPClientWithFallBack with its nil test inverted
HTTPClientWithFallBackInverted(h) ==
    IF h = NilClient THEN h ELSE DefaultClient

\* func HTTPClientWithFallBack(h *http.Client) *http.Client
HTTPClientWithFallBack(h) ==
    IF h # NilClient THEN h ELSE DefaultClient

\* the caller calls HTTPClientWithFallBack(h)
FallBackCall ==
    /\ \E h \in Clients \cup {NilClient} :
         ret' = [op |-> "HTTPClientWithFallBack", h |-> h,
                 client |-> HTTPClientWithFallBack(h)]
    /\ UNCHANGED <<pname, providers, local, alias, heap, registered, cleared>>
    /\ UNCHANGED <<authURL, thrVars>>

\* the caller calls ContextForClient(h)
ContextCall ==
    /\ \E h \in Clients \cup {NilClient} :
         ret' = [op |-> "ContextForClient", h |-> h,
                 ctx |-> ContextForClient(h)]
    /\ UNCHANGED <<pname, providers, local, alias, heap, registered, cleared>>
    /\ UNCHANGED <<authURL, thrVars>>

\* ------------------------------------------------------------ BeginAuth
NoAuthUrlErrorMessageReworded == "no AuthURL has been set"

\* const NoAuthUrlErrorMessage
NoAuthUrlErrorMessage == "an AuthURL has not been set"

\* no Session value
NoSession == <<>>

\* Provider.BeginAuth(state) of provider x: a session holding the endpoint
\* and the state, or the error of a provider without endpoint
BeginAuth(x, state) ==
    IF authURL[x] = NoURL
    THEN [session |-> NoSession, err |-> NoAuthUrlErrorMessage]
    ELSE [session |-> <<authURL[x], state>>, err |-> NoError]

\* the caller calls x.BeginAuth(state)
BeginAuthCall ==
    /\ \E x \in ProvIds, st \in States :
         ret' = [op |-> "BeginAuth", x |-> x, state |-> st,
                 session |-> BeginAuth(x, st).session,
                 err |-> BeginAuth(x, st).err]
    /\ UNCHANGED <<pname, providers, local, alias, heap, registered, cleared>>
    /\ UNCHANGED <<authURL, thrVars>>

\* ------------------------------------------- calls of several threads
\* The package-level functions called from several goroutines. The code
\* takes no lock, so a call is a sequence of separate memory accesses:
\* loads and stores of the variable `providers`, reads and writes of a map.

\* the memory access thread t's next step makes: the variable `providers`
\* (<<"var", NoRef, kind>>) or a map object (<<"map", identity, kind>>)
Pending(t) ==
    CASE pc[t] \in {"use_recv", "get_recv", "get_load"} ->
             {<<"var", NoRef, "read">>}
      [] pc[t] = "clear" -> {<<"var", NoRef, "write">>}
      [] pc[t] = "use_loop" /\ idx[t] <= Len(viders[t]) ->
             {<<"map", cap[t], "write">>}
      [] pc[t] = "get_index" -> {<<"map", cap[t], "read">>}
      [] OTHER -> {}

\* two accesses to one location, at least one a write
Conflict(a, b) == a[1] = b[1] /\ a[2] = b[2] /\ "write" \in {a[3], b[3]}

\* thread t's next access is unordered with a conflicting access of another
\* thread: a data race
Racing(t) ==
    \E u \in Threads \ {t} : \E a \in Pending(t), b \in Pending(u) :
        Conflict(a, b)

\* thread u's Use has stored some of its providers in map m and not yet all
Partial(u, m) ==
    /\ pc[u] = "use_loop" /\ cap[u] = m
    /\ \E i \in 1..(idx[u] - 1), j \in idx[u]..Len(viders[u]) :
         /\ heap[m][Name(viders[u][i])] = viders[u][i]
         /\ heap[m][Name(viders[u][j])] # viders[u][j]

\* UseProviders(vs...) is called
StartUse(t) ==
    /\ ~crashed /\ pc[t] = "idle"
    /\ \E vs \in VidersLists : viders' = [viders EXCEPT ![t] = vs]
    /\ pc' = [pc EXCEPT ![t] = "use_recv"]
    /\ UNCHANGED <<authURL, pname, providers, local, alias, heap, registered, cleared,
                   ret, cap, idx, key, got, sawPartial, crashed>>

\* providers.Use(viders...): the receiver is the map `providers` holds now
UseRecv(t) ==
    /\ ~crashed /\ pc[t] = "use_recv"
    /\ cap' = [cap EXCEPT ![t] = providers]
    /\ idx' = [idx EXCEPT ![t] = 1]
    /\ pc' = [pc EXCEPT ![t] = "use_loop"]
    /\ UNCHANGED <<authURL, pname, providers, local, alias, heap, registered, cleared,
                   ret, viders, key, got, sawPartial, crashed>>

\* an iteration that stores through the variable `providers`, loaded anew,
\* and not through the receiver
UseStepReload(t) ==
    /\ ~crashed /\ pc[t] = "use_loop" /\ idx[t] <= Len(viders[t])
    /\ heap' = [heap EXCEPT ![providers] =
                   MapAssign(@, Name(viders[t][idx[t]]), viders[t][idx[t]])]
    /\ idx' = [idx EXCEPT ![t] = @ + 1]
    /\ UNCHANGED <<authURL, pname, providers, local, alias, registered, cleared, ret,
                   pc, cap, viders, key, got, sawPartial, crashed>>

\* one iteration of Use's loop: p[provider.Name()] = provider
UseStep(t) ==
    /\ ~crashed /\ pc[t] = "use_loop" /\ idx[t] <= Len(viders[t])
    /\ heap' = [heap EXCEPT ![cap[t]] =
                   MapAssign(@, Name(viders[t][idx[t]]), viders[t][idx[t]])]
    /\ idx' = [idx EXCEPT ![t] = @ + 1]
    /\ UNCHANGED <<authURL, pname, providers, local, alias, registered, cleared, ret,
                   pc, cap, viders, key, got, sawPartial, crashed>>

\* Use's loop is over: the call returns
UseReturn(t) ==
    /\ ~crashed /\ pc[t] = "use_loop" /\ idx[t] > Len(viders[t])
    /\ pc' = [pc EXCEPT ![t] = "idle"]
    /\ cap' = [cap EXCEPT ![t] = NoRef]
    /\ viders' = [viders EXCEPT ![t] = <<>>]
    /\ idx' = [idx EXCEPT ![t] = 0]
    /\ heap' = Collect(heap, Live(providers, local, alias, cap'))
    /\ UNCHANGED <<authURL, pname, providers, local, alias, registered, cleared, ret,
                   key, got, sawPartial, crashed>>

\* GetProvider(name) is called
StartGet(t) ==
    /\ ~crashed /\ pc[t] = "idle"
    /\ \E name \in Names : key' = [key EXCEPT ![t] = name]
    /\ pc' = [pc EXCEPT ![t] = "get_recv"]
    /\ UNCHANGED <<authURL, pname, providers, local, alias, heap, registered, cleared,
                   ret, cap, viders, idx, got, sawPartial, crashed>>

\* providers.Get(name): `providers` is loaded as the receiver p, which the
\* body of Get never uses
GetRecv(t) ==
    /\ ~crashed /\ pc[t] = "get_recv"
    /\ pc' = [pc EXCEPT ![t] = "get_load"]
    /\ UNCHANGED <<authURL, pname, providers, local, alias, heap, registered, cleared,
                   ret, cap, viders, idx, key, got, sawPartial, crashed>>

\* Get's body loads the variable `providers` again to index it
GetLoad(t) ==
    /\ ~crashed /\ pc[t] = "get_load"
    /\ cap' = [cap EXCEPT ![t] = providers]
    /\ heap' = Collect(heap, Live(providers, local, alias, cap'))
    /\ pc' = [pc EXCEPT ![t] = "get_index"]
    /\ UNCHANGED <<authURL, pname, providers, local, alias, registered, cleared,
                   ret, viders, idx, key, got, sawPartial, crashed>>

\* Get indexes the map it loaded and tests the value
GetIndex(t) ==
    /\ ~crashed /\ pc[t] = "get_index"
    /\ got' = [got EXCEPT ![t] =
                  GetResult(MapIndex(heap[cap[t]], key[t]), key[t])]
    /\ sawPartial' = (sawPartial \/
                        \E u \in Threads \ {t} : Partial(u, cap[t]))
    /\ pc' = [pc EXCEPT ![t] = "get_ret"]
    /\ cap' = [cap EXCEPT ![t] = NoRef]
    /\ heap' = Collect(heap, Live(providers, local, alias, cap'))
    /\ UNCHANGED <<authURL, pname, providers, local, alias, registered, cleared, ret,
                   viders, idx, key, crashed>>

\* Get returns to its caller, which takes the result
GetReturn(t) ==
    /\ ~crashed /\ pc[t] = "get_ret"
    /\ pc' = [pc EXCEPT ![t] = "idle"]
    /\ key' = [key EXCEPT ![t] = NoName]
    /\ got' = [got EXCEPT ![t] = Void]
    /\ UNCHANGED <<authURL, pname, providers, local, alias, heap, registered, cleared,
                   ret, cap, viders, idx, sawPartial, crashed>>

\* ClearProviders() is called
StartClear(t) ==
    /\ ~crashed /\ pc[t] = "idle"
    /\ pc' = [pc EXCEPT ![t] = "clear"]
    /\ UNCHANGED <<authURL, pname, providers, local, alias, heap, registered, cleared,
                   ret, cap, viders, idx, key, got, sawPartial, crashed>>

\* *p = Providers{}: `providers` is pointed at a new empty map
ClearStore(t) ==
    /\ ~crashed /\ pc[t] = "clear"
    /\ LET new == NewMap(Live(providers, local, alias, cap))
       IN  /\ providers' = new
           /\ heap' = Collect([heap EXCEPT ![new] = EmptyMap],
                              Live(new, local, alias, cap))
    /\ pc' = [pc EXCEPT ![t] = "idle"]
    /\ UNCHANGED <<authURL, pname, local, alias, registered, cleared, ret, cap, viders,
                   idx, key, got, sawPartial, crashed>>

\* a map access that races with another thread's access to the same map
\* may instead abort the process ("fatal error: concurrent map writes",
\* "concurrent map read and map write")
Crash(t) ==
    /\ ~crashed /\ pc[t] \in {"use_loop", "get_index"}
    /\ Racing(t)
    /\ crashed' = TRUE
    /\ UNCHANGED <<authURL, pname, providers, local, alias, heap, registered, cleared,
                   ret, pc, cap, viders, idx, key, got, sawPartial>>

\* ------------------------------------------------------------ initial
\* var providers = Providers{}; p := Providers{}; providers constructed
\* with any names
Constructed ==
    /\ pname \in [ProvIds -> Names]
    /\ providers = 1
    /\ local = 2
    /\ alias = NoRef
    /\ heap = [m \in MapIds |-> EmptyMap]
    /\ registered = [r \in Regs |-> NoneRegistered]
    /\ cleared = [r \in Regs |-> {}]
    /\ ret = Call("init", "shared", NoName, Void)
    /\ pc = [t \in Threads |-> "idle"]
    /\ cap = [t \in Threads |-> NoRef]
    /\ viders = [t \in Threads |-> <<>>]
    /\ idx = [t \in Threads |-> 0]
    /\ key = [t \in Threads |-> NoName]
    /\ got = [t \in Threads |-> Void]
    /\ sawPartial = FALSE
    /\ crashed = FALSE

\* ... every provider with an authorization endpoint
Init ==
    /\ Constructed
    /\ authURL = [x \in ProvIds |-> "https://idp.example/authorize"]

\* ... each provider with or without an authorization endpoint
InitClient ==
    /\ Constructed
    /\ authURL \in [ProvIds -> AuthURLs]

\* one caller using the package-level API
Next ==
    \/ UseProviders
    \/ GetProvider
    \/ ClearProviders
    \/ GetProviders
    \/ SetName

Spec == Init /\ [][Next]_vars

\* one caller who also writes through the map GetProviders() returned
NextAlias ==
    \/ UseProviders
    \/ GetProvider
    \/ ClearProviders
    \/ GetProviders
    \/ AliasStore

SpecAlias == Init /\ [][NextAlias]_vars

\* one caller using the shared registry and a registry p of its own
NextInst ==
    \/ UseProviders
    \/ GetProvider
    \/ ClearProviders
    \/ LocalUse
    \/ LocalGet
    \/ LocalClear

SpecInst == Init /\ [][NextInst]_vars

\* several threads calling the package-level API at once
NextConc ==
    \E t \in Threads :
        \/ StartUse(t)
        \/ UseRecv(t)
        \/ UseStep(t)
        \/ UseReturn(t)
        \/ StartGet(t)
        \/ GetRecv(t)
        \/ GetLoad(t)
        \/ GetIndex(t)
        \/ GetReturn(t)
        \/ StartClear(t)
        \/ ClearStore(t)
        \/ Crash(t)

SpecConc == Init /\ [][NextConc]_vars

\* one caller registering providers, starting handshakes and using the
\* client helpers
NextClient ==
    \/ UseProviders
    \/ ClearProviders
    \/ FallBackCall
    \/ ContextCall
    \/ BeginAuthCall

SpecClient == InitClient /\ [][NextClient]_vars

\* ==================================================================
\* Properties
\* ==================================================================

\* what a lookup of name k must return on a registry whose history is reg
Expected(reg, k) ==
    IF reg[k] # NilProvider
    THEN [provider |-> reg[k], err |-> NoError]
    ELSE [provider |-> NilProvider, err |-> Errorf(k)]

\* C1: on the shared registry, GetProvider(name) returns the provider most
\* recently registered under name by UseProviders since the last
\* ClearProviders, and a not-found error if there is none.
C1_GetReturnsLastRegistered ==
    /\ ret.op = "Get" =>
         /\ ret.provider = registered["shared"][ret.name]
         /\ (ret.provider # NilProvider => ret.err = NoError)
         /\ (ret.provider = NilProvider => ret.err # NoError)
    /\ \A k \in Names :
         Get(providers, k) = Expected(registered["shared"], k)

\* a lookup returned provider 2 for a name under which provider 1 was
\* registered before the last ClearProviders (the old map is still held)
C1_Witness ==
    /\ ret.op = "Get" /\ ret.provider = 2 /\ ret.err = NoError
    /\ alias # NoRef /\ alias # providers
    /\ heap[alias][ret.name] = 1

\* the message fmt.Errorf produces for each name
NotFoundMessage ==
    [github |-> "no provider for github exists",
     google |-> "no provider for google exists"]

\* C2: Get returns either (a non-nil provider, nil error) or (nil, the error
\* "no provider for <name> exists"), never (nil, nil), also when a nil
\* value is stored under the name through the map GetProviders returned.
C2_GetNeverNilNil ==
    /\ ret.op = "Get" =>
         \/ ret.provider # NilProvider /\ ret.err = NoError
         \/ ret.provider = NilProvider /\ ret.err = NotFoundMessage[ret.name]
    /\ \A p \in {providers, local}, k \in Names :
         \/ Get(p, k).provider # NilProvider /\ Get(p, k).err = NoError
         \/ Get(p, k).provider = NilProvider
            /\ Get(p, k).err = NotFoundMessage[k]

\* a lookup of a name that holds a stored nil failed with not-found
C2_Witness ==
    /\ ret.op = "Get"
    /\ heap[providers][ret.name] = NilProvider
    /\ ret.provider = NilProvider
    /\ ret.err = NotFoundMessage[ret.name]

\* C3: once a registry is cleared, Get on that registry fails with not-found
\* for every name registered on it before the Clear, until a later Use
\* registers a provider under the name.
C3_ClearedNameNotFound ==
    (ret.op = "Get" /\ ret.name \in cleared[ret.reg]) =>
        (ret.provider = NilProvider /\ ret.err # NoError)

\* C4: the methods of a registry p other than the shared one work on p:
\* p.Get(name) returns what was last registered with p.Use under name,
\* whatever the shared registry holds.
C4_InstanceGetUsesReceiver ==
    (ret.op = "Get" /\ ret.reg = "local") =>
        /\ ret.provider = registered["local"][ret.name]
        /\ (ret.provider = NilProvider <=> ret.err # NoError)

\* C5: calls on the shared registry are serialized: in no reachable state
\* is one thread about to write the registry (a map insertion by Use, the
\* replacement of the map by Clear) while another thread is about to read
\* or write the same thing.
C5_AccessesSerialized == \A t \in Threads : ~Racing(t)

\* C6: concurrent calls are equivalent to whole calls in some order: no Get
\* reads a registry that holds a part of the providers of a Use(a, b) still
\* running (a registered, b not).
C6_CallsAtomic == ~sawPartial

\* C7: the registry holds one entry per name registered since the last
\* Clear, the entry is the provider registered last, and of two providers
\* with one name passed to Use the later one is the entry.
C7_OneEntryPerName ==
    LET m == heap[providers]
    IN  /\ Keys(m) = RegisteredNames("shared")
        /\ Cardinality(Keys(m)) = Cardinality(RegisteredNames("shared"))
        /\ \A k \in Keys(m) : m[k] = registered["shared"][k]
        /\ \A vs \in VidersLists : \A i, j \in 1..Len(vs) :
             (i < j /\ Name(vs[i]) = Name(vs[j])
                /\ \A l \in (j + 1)..Len(vs) : Name(vs[l]) # Name(vs[j]))
             => /\ Use(m, vs)[Name(vs[j])] = vs[j]
                /\ Keys(Use(m, vs)) = Keys(m) \cup {Name(vs[l]) : l \in 1..Len(vs)}

\* after a Use, two providers report the same name and the registry has
\* exactly one entry, holding provider 2
C7_Witness ==
    /\ ret.op = "Use"
    /\ Name(1) = Name(2)
    /\ heap[providers][Name(1)] = 2
    /\ Cardinality(Keys(heap[providers])) = 1

\* C8: the collection GetProviders() returns has as keys exactly the names
\* registered through UseProviders since the last ClearProviders, each
\* mapped to the provider GetProvider returns for it.
C8_GetProvidersKeys ==
    ret.op = "GetProviders" =>
        /\ alias # NoRef
        /\ Keys(heap[alias]) = RegisteredNames("shared")
        /\ \A k \in Keys(heap[alias]) :
             Get(providers, k) = [provider |-> heap[alias][k], err |-> NoError]

\* GetProviders() returned a collection with the keys github and google
C8_Witness ==
    /\ ret.op = "GetProviders"
    /\ Keys(heap[alias]) = {"github", "google"}

\* C9: a provider registered under old and renamed since is still indexed
\* by old: Get(old) returns it, and Get of its new name fails while nothing
\* is registered under the new name.
C9_RenamedKeptUnderOldName ==
    \A x \in ProvIds, old \in Names :
        (registered["shared"][old] = x /\ Name(x) # old) =>
            /\ Get(providers, old) = [provider |-> x, err |-> NoError]
            /\ registered["shared"][Name(x)] = NilProvider =>
                 /\ Get(providers, Name(x)).provider = NilProvider
                 /\ Get(providers, Name(x)).err # NoError

\* a lookup of a renamed provider's new name failed while the provider is
\* registered under its old name
C9_Witness ==
    /\ ret.op = "Get" /\ ret.err # NoError
    /\ \E x \in ProvIds, old \in Names \ {ret.name} :
         /\ Name(x) = ret.name
         /\ registered["shared"][old] = x
         /\ heap[providers][old] = x

\* C10: Use is idempotent: applying Use with a list of providers to the
\* result of Use with that list changes nothing.
C10_UseIdempotent ==
    \A r \in Regs : \A vs \in VidersLists :
        LET once == Use(heap[RegMap(r)], vs)
        IN  Use(once, vs) = once

\* a Use has registered providers under both names
C10_Witness ==
    /\ ret.op = "Use"
    /\ Keys(heap[providers]) = Names
    /\ Name(1) # Name(2)

\* the registry and the providers, as a caller can observe them
registryVars == <<pname, authURL, providers, local, alias, heap>>

\* C11: HTTPClientWithFallBack(h) returns h when h is not nil and the
\* default client when h is nil, never nil, and changes no state.
C11_FallBackResult ==
    [][ret'.op = "HTTPClientWithFallBack" =>
         /\ (ret'.h # NilClient => ret'.client = ret'.h)
         /\ (ret'.h = NilClient => ret'.client = DefaultClient)
         /\ ret'.client # NilClient
         /\ UNCHANGED <<registryVars, registered, cleared, thrVars>>]_vars

\* HTTPClientWithFallBack(nil) returned the default client while providers
\* are registered
C11_Witness ==
    /\ ret.op = "HTTPClientWithFallBack"
    /\ ret.h = NilClient /\ ret.client = DefaultClient
    /\ Keys(heap[providers]) # {}

\* C12: ContextForClient(h) returns for a non-nil h a context whose HTTP
\* client value is h, and for a nil h the baseline context, which has no
\* client value.
C12_ContextCarriesClient ==
    ret.op = "ContextForClient" =>
        /\ (ret.h # NilClient =>
              /\ Value(ret.ctx, "oauth2.HTTPClient") = ret.h
              /\ Len(ret.ctx) = 1)
        /\ (ret.h = NilClient =>
              /\ ret.ctx = <<>>
              /\ Value(ret.ctx, "oauth2.HTTPClient") = NilClient)

\* ContextForClient returned a context that carries a caller's own client
C12_Witness ==
    /\ ret.op = "ContextForClient"
    /\ ret.h \notin {NilClient, DefaultClient}
    /\ Value(ret.ctx, "oauth2.HTTPClient") = ret.h

\* C13: BeginAuth on a provider without authorization endpoint fails with
\* exactly the message "an AuthURL has not been set" and returns no
\* session.
C13_BeginAuthSentinel ==
    (ret.op = "BeginAuth" /\ authURL[ret.x] = "") =>
        /\ ret.err = "an AuthURL has not been set"
        /\ ret.session = <<>>

\* BeginAuth failed on a provider constructed without endpoint
C13_Witness ==
    /\ ret.op = "BeginAuth"
    /\ authURL[ret.x] = ""
    /\ ret.err # NoError


\* C14: a provider registered under old, renamed and registered again is
\* held under both names: the entry under old stays, so a key of the
\* registry need not be the Name() of the provider stored under it.
C14_StaleKeyKept ==
    \A x \in ProvIds, old \in Names :
        (/\ Name(x) # old
         /\ registered["shared"][old] = x
         /\ registered["shared"][Name(x)] = x)
        => /\ heap[providers][old] = x
           /\ heap[providers][Name(x)] = x
           /\ Get(providers, old) = [provider |-> x, err |-> NoError]

\* after a Use, one provider is the entry of its name and of another name
C14_Witness ==
    /\ ret.op = "Use"
    /\ \E x \in ProvIds, old \in Names :
         /\ Name(x) # old
         /\ heap[providers][old] = x
         /\ heap[providers][Name(x)] = x


\* C15: the collection GetProviders() returned is the shared map itself
\* until the next ClearProviders: a later UseProviders shows in it and an
\* entry stored through it is what GetProvider returns. ClearProviders
\* points the registry at a new empty map: the collection keeps all its
\* entries, GetProvider fails for them, and later registrations no longer
\* show in it.
C15_AliasLiveUntilClear ==
    [][/\ ret'.op = "GetProviders" => alias' = providers'
       /\ (alias # NoRef /\ alias = providers /\ ret'.op # "Clear")
            => alias' = providers'
       /\ (alias # NoRef /\ alias = providers /\ ret'.op = "Use")
            => \A k \in Names :
                 registered'["shared"][k] # registered["shared"][k]
                 => heap'[alias][k] = registered'["shared"][k]
       /\ (alias # NoRef /\ alias = providers /\ ret'.op = "Store")
            => \E v \in Values, n \in Names :
                 /\ n = ret'.name
                 /\ heap'[alias] = MapAssign(heap[alias], n, v)
                 /\ Get(providers, n)' = GetResult(v, n)
       /\ (alias # NoRef /\ ret'.op = "Clear")
            => /\ alias' = alias
               /\ alias' # providers'
               /\ heap'[alias'] = heap[alias]
               /\ \A k \in Names : Get(providers, k)'.err # NoError
       /\ (alias # NoRef /\ alias # providers /\ ret'.op = "Use")
            => /\ alias' = alias
               /\ heap'[alias'] = heap[alias]
      ]_vars

\* GetProvider failed for a name that the collection obtained before the
\* last ClearProviders still maps to a provider
C15_Witness ==
    /\ alias # NoRef /\ alias # providers
    /\ ret.op = "Get" /\ ret.err # NoError
    /\ heap[alias][ret.name] \in ProvIds


\* the names the providers of vs report
NamesOf(vs) == {Name(vs[i]) : i \in 1..Len(vs)}

\* C16: Get, hit or miss, leaves the registries unchanged; Use(vs...) on a
\* registry changes only the entries keyed by the Name() of the providers
\* of vs, each to one of those providers, and nothing else.
C16_FrameConditions ==
    /\ [](\A r \in Regs, vs \in VidersLists :
            \A k \in Names :
                Use(heap[RegMap(r)], vs)[k] =
                    IF k \in NamesOf(vs)
                    THEN LastRegistered(NoneRegistered, vs)[k]
                    ELSE heap[RegMap(r)][k])
    /\ [][
          /\ ret'.op = "Get" =>
                UNCHANGED <<registryVars, registered, cleared>>
          /\ ret'.op = "Use" =>
                LET m == RegMap(ret'.reg)
                IN  /\ UNCHANGED <<pname, authURL, providers, local, alias>>
                    /\ \A o \in MapIds \ {m} : heap'[o] = heap[o]
                    /\ \A k \in Names :
                         \/ heap'[m][k] = heap[m][k]
                         \/ /\ heap'[m][k] \in ProvIds
                            /\ Name(heap'[m][k]) = k
                            /\ registered'[ret'.reg][k] = heap'[m][k]
       ]_vars

\* a Use on the caller's own registry registered github there and left the
\* shared registry with its one entry, google
C16_Witness ==
    /\ ret.op = "Use" /\ ret.reg = "local"
    /\ Keys(heap[local]) = {"github"}
    /\ Keys(heap[providers]) = {"google"}


\* ------------------------------------- Use overlapping ClearProviders
\* the thread that calls UseProviders; the other threads call
\* ClearProviders
Registrar == 1
Clearers == Threads \ {Registrar}

\* one thread registering providers while the others clear the registry.
\* Only the registrar touches a map; its load of the variable `providers`
\* is unordered with a clearer's store and yields the old or the new map.
NextUseClear ==
    \/ StartUse(Registrar)
    \/ UseRecv(Registrar)
    \/ UseStep(Registrar)
    \/ UseReturn(Registrar)
    \/ \E t \in Clearers : StartClear(t)
    \/ \E t \in Clearers : ClearStore(t)

SpecUseClear == Init /\ [][NextUseClear]_vars

\* map contents m hold the entry of every provider a call Use(vs...) stores
AllRegistered(m, vs) ==
    \A k \in NamesOf(vs) : m[k] = LastRegistered(NoneRegistered, vs)[k]

\* map contents m hold none of the providers of vs
NoneOf(m, vs) == \A i \in 1..Len(vs) : m[Name(vs[i])] # vs[i]

\* C17: a UseProviders call that overlaps ClearProviders calls stores every
\* entry in the one map it took as receiver; when it returns the shared
\* registry holds all of its entries or none of its providers, and a Clear
\* during the call leaves the registry empty, the call's entries lost.
C17_UseOverlappingClear ==
    [][LET t == Registrar
       IN  /\ (pc[t] = "use_loop" /\ idx'[t] = idx[t] + 1) =>
                /\ cap'[t] = cap[t]
                /\ heap'[cap[t]] = MapAssign(heap[cap[t]],
                                             Name(viders[t][idx[t]]),
                                             viders[t][idx[t]])
                /\ \A o \in MapIds \ {cap[t]} : heap'[o] = heap[o]
           /\ (pc[t] = "use_loop" /\ pc'[t] = "idle") =>
                /\ AllRegistered(heap[cap[t]], viders[t])
                /\ \/ AllRegistered(heap[providers], viders[t])
                   \/ NoneOf(heap[providers], viders[t])
                /\ heap'[providers'] = heap[providers]
           /\ (pc[t] = "use_loop" /\ providers' # providers) =>
                /\ cap'[t] # providers'
                /\ heap'[providers'] = EmptyMap
                /\ heap'[cap[t]] = heap[cap[t]]
      ]_vars

\* Use(a, b) of two providers with different names has stored both, every
\* Clear has returned, and the shared registry is empty: the call took the
\* map an overlapping Clear then replaced
C17_Witness ==
    LET t == Registrar
    IN  /\ pc[t] = "use_loop" /\ idx[t] > Len(viders[t])
        /\ Len(viders[t]) = 2
        /\ Name(viders[t][1]) # Name(viders[t][2])
        /\ \A u \in Clearers : pc[u] = "idle"
        /\ cap[t] # providers
        /\ heap[providers] = EmptyMap
        /\ AllRegistered(heap[cap[t]], viders[t])

====
